---- MODULE Spec2Model ----
(***************************************************************************)
(* A model of the ngx-tree option resolver (TreeOptions, TREE_ACTIONS,     *)
(* defaultActionMapping) and of the tree model / tree node operations the  *)
(* built-in actions delegate to.                                           *)
(***************************************************************************)
EXTENDS Naturals, Integers, Sequences, FiniteSets, TLC

VARIABLES
    options,        \* the ITreeOptions object handed to the TreeOptions constructor
    actionMapping,  \* TreeOptions.actionMapping (Undefined before the constructor ran)
    result,         \* the last call on TreeOptions and the value it returned
    children,       \* children[n]: ordered children of node n; children[0] = TreeModel.roots
    parent,         \* parent[n]: 0 for a root
    index,          \* TreeNode.index
    level,          \* TreeNode.level
    path,           \* TreeNode.path
    loadState,      \* "Absent" | "Unloaded" | "Loading" | "Loaded" per node
    isExpanded,     \* TreeNode.isExpanded
    isActive,       \* TreeNode.isActive
    isHidden,       \* TreeNode.isHidden
    hist            \* the last operations on the tree, newest first

optVars  == <<options, actionMapping, result>>
treeVars == <<children, parent, index, level, path, loadState>>
flagVars == <<isExpanded, isActive, isHidden>>
vars     == <<options, actionMapping, result, children, parent, index, level, path,
              loadState, isExpanded, isActive, isHidden, hist>>

----------------------------------------------------------------------------
(* Bounds of the model.                                                    *)

MaxUserSlots == 2      \* slots a user action mapping mentions
MaxUserOptions == 2    \* scalar options a user configuration sets
MaxIndex     == 3      \* largest node.index handed to nodeHeight
MaxNodes     == 3      \* nodes of a tree

----------------------------------------------------------------------------
(* JavaScript values: undefined, null, numbers, strings, booleans,         *)
(* functions (named) and plain objects (a function from property names).   *)

Undefined == [kind |-> "undefined"]
Null      == [kind |-> "null"]
Num(n)    == [kind |-> "number", n |-> n]
Str(s)    == [kind |-> "string", s |-> s]
Bool(b)   == [kind |-> "boolean", b |-> b]
Fn(f)     == [kind |-> "function", fn |-> f]
Obj(p)    == [kind |-> "object", props |-> p]
EmptyObj  == Obj([k \in {} |-> Undefined])

\* ToBoolean
Truthy(v) ==
    CASE v.kind = "undefined" -> FALSE
      [] v.kind = "null"      -> FALSE
      [] v.kind = "number"    -> v.n # 0
      [] v.kind = "string"    -> v.s # ""
      [] v.kind = "boolean"   -> v.b
      [] OTHER                -> TRUE

\* a || b
OrElse(a, b) == IF Truthy(a) THEN a ELSE b

\* o[k] on a plain object
Get(o, k) == IF o.kind = "object" /\ k \in DOMAIN o.props THEN o.props[k] ELSE Undefined

----------------------------------------------------------------------------
(* The action mapping: TREE_ACTIONS, defaultActionMapping, IActionMapping. *)

\* the handlers of TREE_ACTIONS, by name
TREE_ACTIONS ==
    {"TOGGLE_SELECTED", "TOGGLE_SELECTED_MULTI", "SELECT", "DESELECT", "FOCUS",
     "TOGGLE_EXPANDED", "EXPAND", "COLLAPSE", "DRILL_DOWN", "DRILL_UP",
     "NEXT_NODE", "PREVIOUS_NODE", "MOVE_NODE"}

\* the mouse slots IActionMapping declares
MouseNames ==
    {"click", "dblClick", "contextMenu", "expanderClick", "dragStart", "drag",
     "dragEnd", "dragOver", "dragLeave", "dragEnter", "drop"}

\* key codes, by their NUMBER_KEYS name; OTHER_KEY stands for a key code the
\* default mapping does not mention
KeyNames == {"RIGHT", "LEFT", "DOWN", "UP", "SPACE", "ENTER", "OTHER_KEY"}

\* a slot of the mapping: a category and a key of that category
Slots == ({"mouse"} \X MouseNames) \cup ({"keys"} \X KeyNames)

\* the default mapping without its entries that are null
defaultActionMappingNoNulls ==
    Obj([c \in {"mouse", "keys"} |->
        IF c = "mouse"
        THEN Obj([k \in {"click", "expanderClick", "drop"} |->
                CASE k = "click"         -> Fn("TOGGLE_SELECTED")
                  [] k = "expanderClick" -> Fn("TOGGLE_EXPANDED")
                  [] k = "drop"          -> Fn("MOVE_NODE")])
        ELSE Obj([k \in {"RIGHT", "LEFT", "DOWN", "UP", "SPACE", "ENTER"} |->
                CASE k = "RIGHT" -> Fn("DRILL_DOWN")
                  [] k = "LEFT"  -> Fn("DRILL_UP")
                  [] k = "DOWN"  -> Fn("NEXT_NODE")
                  [] k = "UP"    -> Fn("PREVIOUS_NODE")
                  [] k = "SPACE" -> Fn("TOGGLE_SELECTED")
                  [] k = "ENTER" -> Fn("TOGGLE_SELECTED")])])

defaultActionMapping ==
    Obj([c \in {"mouse", "keys"} |->
        IF c = "mouse"
        THEN Obj([k \in {"click", "dblClick", "contextMenu", "expanderClick", "drop"} |->
                CASE k = "click"         -> Fn("TOGGLE_SELECTED")
                  [] k = "dblClick"      -> Null
                  [] k = "contextMenu"   -> Null
                  [] k = "expanderClick" -> Fn("TOGGLE_EXPANDED")
                  [] k = "drop"          -> Fn("MOVE_NODE")])
        ELSE Obj([k \in {"RIGHT", "LEFT", "DOWN", "UP", "SPACE", "ENTER"} |->
                CASE k = "RIGHT" -> Fn("DRILL_DOWN")
                  [] k = "LEFT"  -> Fn("DRILL_UP")
                  [] k = "DOWN"  -> Fn("NEXT_NODE")
                  [] k = "UP"    -> Fn("PREVIOUS_NODE")
                  [] k = "SPACE" -> Fn("TOGGLE_SELECTED")
                  [] k = "ENTER" -> Fn("TOGGLE_SELECTED")])])

\* lodash isObject: objects and functions
IsObject(v) == v.kind \in {"object", "function"}

\* lodash defaultsDeep is mergeWith under the customizer customDefaultsMerge.
\* BaseMerge(object, source) is the destination after source was merged into
\* it: per key of source, an object-valued source entry is merged into an
\* object-valued destination entry, cloned when the destination has none,
\* and kept out when the destination holds anything else; any other source
\* entry is assigned only where the destination resolves to undefined.
RECURSIVE BaseMerge(_, _)
BaseMerge(object, source) ==
    IF object.kind # "object" \/ source.kind # "object" THEN object
    ELSE Obj([k \in DOMAIN object.props \cup DOMAIN source.props |->
            IF k \notin DOMAIN source.props THEN object.props[k]
            ELSE LET srcValue == source.props[k]
                     objValue == Get(object, k)
                 IN  IF IsObject(srcValue)
                     THEN IF IsObject(objValue) THEN BaseMerge(objValue, srcValue)
                          ELSE IF objValue # Undefined THEN objValue
                          ELSE IF srcValue.kind = "object"
                               THEN BaseMerge(EmptyObj, srcValue)
                               ELSE srcValue
                     ELSE IF objValue # Undefined THEN objValue ELSE srcValue])

\* lodash defaults in place of defaultsDeep: whole categories are defaulted,
\* the entries inside a category the user supplies are not
defaultsShallow(object, source1, source2) ==
    Obj([c \in (IF source1.kind = "object" THEN DOMAIN source1.props ELSE {})
                \cup DOMAIN source2.props |->
            IF Get(source1, c) # Undefined THEN Get(source1, c) ELSE Get(source2, c)])

\* defaultsDeep(object, source1, source2): the sources are applied left to right
defaultsDeep(object, source1, source2) ==
    BaseMerge(BaseMerge(object, source1), source2)

\* new TreeOptions(options).actionMapping
ResolveActionMapping(opts) ==
    defaultsDeep(EmptyObj, Get(opts, "actionMapping"), defaultActionMapping)

\* actionMapping[cat][key] as a dispatcher reads it
Slot(mapping, s) == Get(Get(mapping, s[1]), s[2])

\* what a user may put in a slot
UserSlotValues == {Undefined, Null, Fn("USER_HANDLER")}

\* the user action mapping that has the categories cats and the entries v
UserMapping(cats, v) ==
    Obj([c \in cats |->
        Obj([k \in {s[2] : s \in {t \in DOMAIN v : t[1] = c}} |-> v[<<c, k>>]])])

\* the sets of at most n slots
SlotSets(n) == {T \in SUBSET Slots : Cardinality(T) <= n}

\* the categories a mapping with the slots S can have
CategorySets(S) == {c \in SUBSET {"mouse", "keys"} : {s[1] : s \in S} \subseteq c}

----------------------------------------------------------------------------
(* ITreeOptions and the TreeOptions getters.                               *)

DefaultNodeHeight == 22
DefaultDropSlotHeight == 2
DefaultLevelPadding == 0

\* the scalar options of ITreeOptions
FieldOptions == {"childrenField", "displayField", "idField", "isExpandedField",
                 "isHiddenField"}
OptionNames == FieldOptions \cup
               {"levelPadding", "dropSlotHeight", "nodeHeight", "allowDrag", "allowDrop"}

\* the values a user may give an option
OptionValues(name) ==
    CASE name \in FieldOptions     -> {Undefined, Str(""), Str("custom")}
      [] name = "levelPadding"     -> {Undefined, Num(0), Num(8)}
      [] name = "dropSlotHeight"   -> {Undefined, Num(0), Num(5)}
      [] name = "nodeHeight"       -> {Undefined, Num(0), Num(20), Fn("heightByIndex")}
      [] name = "allowDrag"        -> {Undefined, Bool(TRUE), Bool(FALSE), Fn("dragUnlessFirst")}
      [] name = "allowDrop"        -> {Undefined, Bool(TRUE), Bool(FALSE), Fn("dropOnLeaf"),
                                       Fn("dropNever")}

\* the sets of at most n scalar options
OptionSets(n) == {T \in SUBSET OptionNames : Cardinality(T) <= n}

\* the ways to give each option of S one of its values
OptionChoices(S) ==
    {f \in [S -> UNION {OptionValues(name) : name \in S}] :
        \A k \in S : f[k] \in OptionValues(k)}

\* a TreeNode as the option callbacks see it
NodeArgs == [index : 0..MaxIndex, virtual : {Undefined, Bool(TRUE)}, isLeaf : BOOLEAN]

\* a drop target {parent, index}
DropArgs == [parent : [index : {0}, virtual : {Undefined}, isLeaf : BOOLEAN],
             index : 0..1]

\* user-supplied INodeHeightFn
ApplyNodeHeightFn(fn, node) == Num(10 * node.index)

\* user-supplied IAllowDragFn
ApplyAllowDragFn(fn, node) == Bool(node.index # 0)

\* user-supplied IAllowDropFn
ApplyAllowDropFn(fn, element, to) ==
    IF fn = "dropOnLeaf" THEN Bool(to.parent.isLeaf) ELSE Bool(FALSE)

childrenField(opts)   == OrElse(Get(opts, "childrenField"), Str("children"))
displayField(opts)    == OrElse(Get(opts, "displayField"), Str("name"))
idField(opts)         == OrElse(Get(opts, "idField"), Str("id"))
isExpandedField(opts) == OrElse(Get(opts, "isExpandedField"), Str("isExpanded"))
isHiddenField(opts)   == OrElse(Get(opts, "isHiddenField"), Str("isHidden"))
levelPadding(opts)    == OrElse(Get(opts, "levelPadding"), Num(DefaultLevelPadding))
dropSlotHeight(opts)  == OrElse(Get(opts, "dropSlotHeight"), Num(DefaultDropSlotHeight))

\* the getter named g
Getter(opts, g) ==
    CASE g = "childrenField"   -> childrenField(opts)
      [] g = "displayField"    -> displayField(opts)
      [] g = "idField"         -> idField(opts)
      [] g = "isExpandedField" -> isExpandedField(opts)
      [] g = "isHiddenField"   -> isHiddenField(opts)
      [] g = "levelPadding"    -> levelPadding(opts)
      [] g = "dropSlotHeight"  -> dropSlotHeight(opts)

GetterNames == FieldOptions \cup {"levelPadding", "dropSlotHeight"}

nodeHeight(opts, node) ==
    IF Truthy(node.virtual) THEN Num(0)
    ELSE LET configured == OrElse(Get(opts, "nodeHeight"), Num(DefaultNodeHeight))
             height == IF configured.kind = "function"
                       THEN ApplyNodeHeightFn(configured.fn, node)
                       ELSE configured
         IN  Num(height.n + (IF node.index = 0 THEN 2 ELSE 1))

\* the default supplied with ||, which also overrides a configured false
allowDropOrTrue(opts, element, to) ==
    LET o == Get(opts, "allowDrop")
    IN  IF o.kind = "function" THEN ApplyAllowDropFn(o.fn, element, to)
        ELSE OrElse(o, Bool(TRUE))

allowDrop(opts, element, to) ==
    LET o == Get(opts, "allowDrop")
    IN  IF o.kind = "function" THEN ApplyAllowDropFn(o.fn, element, to)
        ELSE IF o = Undefined THEN Bool(TRUE) ELSE o

allowDrag(opts, node) ==
    LET o == Get(opts, "allowDrag")
    IN  IF o.kind = "function" THEN ApplyAllowDragFn(o.fn, node) ELSE o

----------------------------------------------------------------------------
(* The tree: TreeModel.roots and the TreeNode position fields.             *)

Nodes == 1..MaxNodes

Min(a, b) == IF a < b THEN a ELSE b

\* the elements of a set of numbers in increasing order
RECURSIVE SortedSeq(_)
SortedSeq(S) ==
    IF S = {} THEN <<>>
    ELSE LET m == CHOOSE x \in S : \A y \in S : x <= y
         IN  <<m>> \o SortedSeq(S \ {m})

\* the elements of a sequence
Range(q) == {q[i] : i \in 1..Len(q)}

\* the removal forgotten: the element stays where it was
RemoveAtKeeps(q, i) == q

\* q without its element at 0-based position i
RemoveAt(q, i) == SubSeq(q, 1, i) \o SubSeq(q, i + 2, Len(q))

\* q with x spliced in at 0-based position i
InsertAt(q, i, x) == SubSeq(q, 1, i) \o <<x>> \o SubSeq(q, i + 1, Len(q))

\* the nodes of the forest
AliveNodes == {n \in Nodes : loadState[n] # "Absent"}

\* n and its ancestors, walking the parent references at most fuel steps
RECURSIVE AncestorChain(_, _)
AncestorChain(n, fuel) ==
    IF n = 0 \/ fuel = 0 THEN {} ELSE {n} \cup AncestorChain(parent[n], fuel - 1)

\* the strict ancestors of n
Ancestors(n) == IF n = 0 THEN {} ELSE AncestorChain(parent[n], MaxNodes)

\* TreeNode.isDescendantOf
isDescendantOf(n, other) == other \in Ancestors(n)

\* n and the nodes below it
Subtree(n) == {d \in AliveNodes : n \in AncestorChain(d, MaxNodes + 1)}

\* TreeNode.hasChildren: loaded children, or children still to be loaded
hasChildren(n) == Len(children[n]) > 0 \/ loadState[n] \in {"Unloaded", "Loading"}

\* TreeNode.isLeaf
isLeaf(n) == ~hasChildren(n)

\* the level and path of n under the parent references par
RECURSIVE PathIn(_, _, _)
PathIn(par, n, fuel) ==
    IF n = 0 \/ fuel = 0 THEN <<>> ELSE PathIn(par, par[n], fuel - 1) \o <<n>>

\* the trees of k nodes a data set can describe: node i's parent is an
\* earlier node or none, children in the order of the data
Forests(k) == {p \in [1..k -> 0..k] : \A i \in 1..k : p[i] < i}

\* the tree built from the data d = (k, p, lazy); the leaves in lazy load
\* their children on demand
BuildTree(d) ==
    [parent   |-> [n \in Nodes |-> IF n <= d.k THEN d.p[n] ELSE 0],
     children |-> [n \in 0..MaxNodes |-> SortedSeq({c \in 1..d.k : d.p[c] = n})],
     index    |-> [n \in Nodes |->
                     IF n <= d.k
                     THEN Cardinality({c \in 1..d.k : d.p[c] = d.p[n] /\ c < n})
                     ELSE 0],
     path     |-> [n \in Nodes |-> IF n <= d.k THEN PathIn(d.p, n, d.k) ELSE <<>>],
     level    |-> [n \in Nodes |-> IF n <= d.k THEN Len(PathIn(d.p, n, d.k)) ELSE 0],
     loadState |-> [n \in Nodes |->
                     IF n > d.k THEN "Absent"
                     ELSE IF n \in d.lazy THEN "Unloaded" ELSE "Loaded"]]

\* the data sets: at most MaxNodes items, at most one lazy leaf
DataSets ==
    UNION { UNION { { [k |-> k, p |-> p, lazy |-> lazy]
                      : lazy \in {L \in SUBSET (1..k) :
                                     /\ Cardinality(L) <= 1
                                     /\ \A n \in L : \A c \in 1..k : p[c] # n} }
                    : p \in Forests(k) }
            : k \in 0..MaxNodes }

\* the trees setData can build
DataTrees == {BuildTree(d) : d \in DataSets}

NoFlags == [n \in Nodes |-> FALSE]

\* the last operation is kept, or the last two
Push1(h) == <<h>>
Push2(h) == <<h>> \o (IF hist = <<>> THEN <<>> ELSE <<hist[1]>>)

\* the tree fields hold the tree t
TreeIs(t) ==
    /\ parent = t.parent
    /\ children = t.children
    /\ index = t.index
    /\ path = t.path
    /\ level = t.level
    /\ loadState = t.loadState

\* a node as a user callback sees it; 0 is the parent of the roots
NodeView(n) ==
    [index   |-> IF n = 0 THEN 0 ELSE index[n],
     virtual |-> IF n = 0 THEN Bool(TRUE) ELSE Undefined,
     isLeaf  |-> IF n = 0 THEN children[0] = <<>> ELSE isLeaf(n)]

\* the drop targets: a slot among the children of a loaded node or of the roots
DropTargets ==
    UNION { { [parent |-> q, index |-> i] : i \in 0..Len(children[q]) }
            : q \in {0} \cup {n \in AliveNodes : loadState[n] = "Loaded"} }

----------------------------------------------------------------------------
(* TreeModel.moveNode                                                      *)

\* the move would make node an ancestor of itself
MoveIsCyclic(node, to) == node \in AncestorChain(to.parent, MaxNodes)

\* the resolved allowDrop option accepts the move
MoveIsAllowed(node, to) ==
    Truthy(allowDrop(options, NodeView(node),
                     [parent |-> NodeView(to.parent), index |-> to.index]))

moveNode(node, to) ==
    IF ~MoveIsAllowed(node, to) \/ MoveIsCyclic(node, to)
    THEN UNCHANGED treeVars
    ELSE LET fromParent == parent[node]
             fromIndex  == index[node]
             removed    == [children EXCEPT ![fromParent] = RemoveAt(@, fromIndex)]
             toIndex    == Min(to.index, Len(removed[to.parent]))
             moved      == Subtree(node)
             newParent  == [parent EXCEPT ![node] = to.parent]
             base       == IF to.parent = 0 THEN 0 ELSE level[to.parent]
         IN  /\ children' = [removed EXCEPT ![to.parent] = InsertAt(@, toIndex, node)]
             /\ parent' = newParent
             /\ index' = [n \in Nodes |->
                   IF n = node THEN toIndex
                   ELSE LET afterRemoval ==
                                IF n \in Range(children[fromParent]) /\ index[n] > fromIndex
                                THEN index[n] - 1 ELSE index[n]
                        IN  IF n \in Range(removed[to.parent]) /\ afterRemoval >= toIndex
                            THEN afterRemoval + 1 ELSE afterRemoval]
             /\ level' = [n \in Nodes |->
                   IF n \in moved THEN base + 1 + (level[n] - level[node]) ELSE level[n]]
             /\ path' = [n \in Nodes |->
                   IF n \in moved THEN PathIn(newParent, n, MaxNodes) ELSE path[n]]
             /\ UNCHANGED loadState

\* TREE_ACTIONS.MOVE_NODE
MOVE_NODE(node, from, to) == moveNode(from, to)

----------------------------------------------------------------------------
(* Lazy children, setData.                                                 *)

\* the ids a load can give to new nodes
FreeNodes == Nodes \ AliveNodes

\* a node's children are requested: at most one load in flight per node
loadNodeChildren(n) ==
    /\ loadState[n] = "Unloaded"
    /\ loadState' = [loadState EXCEPT ![n] = "Loading"]
    /\ UNCHANGED <<children, parent, index, level, path>>

\* the load of n completes with the new nodes kids, spliced in as n's children
loadComplete(n, kids) ==
    LET q == SortedSeq(kids)
    IN  /\ loadState[n] = "Loading"
        /\ children' = [children EXCEPT ![n] = q]
        /\ parent' = [m \in Nodes |-> IF m \in kids THEN n ELSE parent[m]]
        /\ index' = [m \in Nodes |->
              IF m \in kids THEN Cardinality({c \in kids : c < m}) ELSE index[m]]
        /\ level' = [m \in Nodes |-> IF m \in kids THEN level[n] + 1 ELSE level[m]]
        /\ path' = [m \in Nodes |-> IF m \in kids THEN path[n] \o <<m>> ELSE path[m]]
        /\ loadState' = [m \in Nodes |->
              IF m = n \/ m \in kids THEN "Loaded" ELSE loadState[m]]

\* TreeModel.setData: the roots are replaced wholesale by the tree t built
\* from the new data
setData(t) ==
    /\ parent' = t.parent
    /\ children' = t.children
    /\ index' = t.index
    /\ level' = t.level
    /\ path' = t.path
    /\ loadState' = t.loadState

----------------------------------------------------------------------------
(* TreeNode: expansion, activation, visibility.                            *)

\* TreeNode.setIsExpanded: no-op on a node without children; expanding a
\* node whose children are not loaded requests them
setIsExpanded(n, value) ==
    IF hasChildren(n) /\ isExpanded[n] # value
    THEN /\ isExpanded' = [isExpanded EXCEPT ![n] = value]
         /\ loadState' = [loadState EXCEPT ![n] =
                             IF value /\ @ = "Unloaded" THEN "Loading" ELSE @]
    ELSE UNCHANGED <<isExpanded, loadState>>

expand(n)         == setIsExpanded(n, TRUE)
collapse(n)       == setIsExpanded(n, FALSE)
toggleExpanded(n) == setIsExpanded(n, ~isExpanded[n])

\* TreeNode.toggleActivated(multi)
toggleActivated(n, multi) ==
    IF multi THEN isActive' = [isActive EXCEPT ![n] = ~@]
    ELSE IF ~isActive[n] THEN isActive' = [m \in Nodes |-> m = n]
    ELSE isActive' = [isActive EXCEPT ![n] = FALSE]

\* TreeNode.setActive(value): single-select activation
setActive(n, value) ==
    IF value THEN isActive' = [m \in Nodes |-> m = n]
    ELSE isActive' = [isActive EXCEPT ![n] = FALSE]

\* ensureVisible() left out
EnsureVisibleNone(S) == isExpanded

\* the expansion flags after ensureVisible() on every node of S: every
\* strict ancestor of such a node is expanded
EnsureVisibleAll(S) ==
    [n \in Nodes |-> isExpanded[n] \/ \E m \in S : n \in Ancestors(m)]

\* TreeModel.filterNodes(filter, autoShow); the filter is the set of nodes
\* it matches. Every node is hidden unless it matches, then the ancestors
\* of every match are shown, then with autoShow the visible nodes are made
\* reachable.
filterNodes(filter, autoShow) ==
    LET matches == filter \cap AliveNodes
        phase1  == [n \in Nodes |-> n \in AliveNodes /\ n \notin matches]
        phase2  == [n \in Nodes |-> phase1[n] /\ ~\E m \in matches : n \in Ancestors(m)]
        visible == {n \in AliveNodes : ~phase2[n]}
    IN  /\ isHidden' = phase2
        /\ isExpanded' = IF autoShow THEN EnsureVisibleAll(visible) ELSE isExpanded

\* TreeModel.clearFilter
clearFilter == isHidden' = NoFlags

----------------------------------------------------------------------------
(* TREE_ACTIONS handlers; node 0 is a null node.                           *)

\* the multi flag passed by mistake
TOGGLE_SELECTED_AsMulti(node) ==
    IF node = 0 THEN UNCHANGED isActive ELSE toggleActivated(node, TRUE)

TOGGLE_SELECTED(node) ==
    IF node = 0 THEN UNCHANGED isActive ELSE toggleActivated(node, FALSE)

TOGGLE_SELECTED_MULTI(node) ==
    IF node = 0 THEN UNCHANGED isActive ELSE toggleActivated(node, TRUE)

SELECT(node)   == setActive(node, TRUE)
DESELECT(node) == setActive(node, FALSE)

TOGGLE_EXPANDED(node) ==
    IF hasChildren(node) THEN toggleExpanded(node) ELSE UNCHANGED <<isExpanded, loadState>>

\* a toggle in place of expand
EXPAND_AsToggle(node) == toggleExpanded(node)

EXPAND(node)   == expand(node)
COLLAPSE(node) == collapse(node)

----------------------------------------------------------------------------
(* Specifications.                                                         *)

NoCall == [op |-> "none"]

EmptyTree == TreeIs(BuildTree([k |-> 0, p |-> <<>>, lazy |-> {}]))

TreeUntouched == UNCHANGED <<treeVars, flagVars, hist>>

\* --- the constructor: the action mapping is resolved from the options ---

\* the configuration is empty, or it holds an action mapping that mentions
\* at most MaxUserSlots slots
InitMapping ==
    /\ \/ options = EmptyObj
       \/ \E S \in SlotSets(MaxUserSlots) :
            \E cats \in CategorySets(S), v \in [S -> UserSlotValues] :
                options = Obj([k \in {"actionMapping"} |-> UserMapping(cats, v)])
    /\ actionMapping = Undefined
    /\ result = NoCall
    /\ EmptyTree
    /\ isExpanded = NoFlags /\ isActive = NoFlags /\ isHidden = NoFlags
    /\ hist = <<>>

Construct ==
    /\ actionMapping = Undefined
    /\ actionMapping' = ResolveActionMapping(options)
    /\ result' = [op |-> "constructor"]
    /\ UNCHANGED options
    /\ TreeUntouched

NextMapping == Construct

SpecMapping == InitMapping /\ [][NextMapping]_vars

\* --- the getters and predicates of a constructed TreeOptions ---

\* the configuration sets at most MaxUserOptions scalar options
InitOptions ==
    /\ \E S \in OptionSets(MaxUserOptions) : \E f \in OptionChoices(S) : options = Obj(f)
    /\ actionMapping = ResolveActionMapping(options)
    /\ result = NoCall
    /\ EmptyTree
    /\ isExpanded = NoFlags /\ isActive = NoFlags /\ isHidden = NoFlags
    /\ hist = <<>>

CallGetter ==
    \E g \in GetterNames :
        /\ result' = [op |-> g, value |-> Getter(options, g)]
        /\ UNCHANGED <<options, actionMapping>>
        /\ TreeUntouched

CallNodeHeight ==
    \E node \in NodeArgs :
        /\ result' = [op |-> "nodeHeight", node |-> node, value |-> nodeHeight(options, node)]
        /\ UNCHANGED <<options, actionMapping>>
        /\ TreeUntouched

CallAllowDrop ==
    \E element \in {n \in NodeArgs : n.index = 0 /\ n.virtual = Undefined}, to \in DropArgs :
        /\ result' = [op |-> "allowDrop", element |-> element, to |-> to,
                      value |-> allowDrop(options, element, to)]
        /\ UNCHANGED <<options, actionMapping>>
        /\ TreeUntouched

CallAllowDrag ==
    \E node \in {n \in NodeArgs : n.virtual = Undefined} :
        /\ result' = [op |-> "allowDrag", node |-> node, value |-> allowDrag(options, node)]
        /\ UNCHANGED <<options, actionMapping>>
        /\ TreeUntouched

NextOptions == CallGetter \/ CallNodeHeight \/ CallAllowDrop \/ CallAllowDrag

SpecOptions == InitOptions /\ [][NextOptions]_vars

----------------------------------------------------------------------------
(* Claims about the option resolver.                                       *)

\* the action mapping the user supplied
UserActionMapping == Get(options, "actionMapping")

\* the slots the default mapping has an entry for
DefaultSlots ==
    ({"mouse"} \X {"click", "dblClick", "contextMenu", "expanderClick", "drop"})
    \cup ({"keys"} \X {"RIGHT", "LEFT", "DOWN", "UP", "SPACE", "ENTER"})

\* the slots of the action-mapping surface: the mouse gestures and the
\* mapped key codes
SurfaceSlots == ({"mouse"} \X MouseNames) \cup {s \in DefaultSlots : s[1] = "keys"}

IsHandlerOrNull(v) == v.kind = "function" \/ v = Null

\* C1: once the constructor has run, every slot follows the three-way rule:
\* a user handler is kept, a user null stays null (the default is
\* suppressed), and a slot the user does not supply equals the default
\* mapping's entry.
C1_ThreeWayMerge ==
    result.op = "constructor" =>
        \A s \in Slots :
            LET user == Slot(UserActionMapping, s)
                resolved == Slot(actionMapping, s)
            IN  /\ user.kind = "function" => resolved = user
                /\ user = Null => resolved = Null
                /\ user = Undefined => resolved = Slot(defaultActionMapping, s)

\* C1 witness: the constructor ran on a mapping that suppresses the default
\* click handler with null, overrides another slot with a handler, and
\* leaves the default drop handler alone.
C1_Witness ==
    /\ result.op = "constructor"
    /\ Slot(UserActionMapping, <<"mouse", "click">>) = Null
    /\ Slot(actionMapping, <<"mouse", "click">>) = Null
    /\ \E s \in Slots : Slot(UserActionMapping, s) = Fn("USER_HANDLER")
    /\ Slot(actionMapping, <<"mouse", "drop">>) = Fn("MOVE_NODE")

\* C3 as stated: once the constructor has run, every slot of the
\* action-mapping surface holds a handler or null, none is absent.
C3_EverySlotFilled ==
    result.op = "constructor" =>
        \A s \in SurfaceSlots : IsHandlerOrNull(Slot(actionMapping, s))

\* C3 amended: once the constructor has run, every slot the default mapping
\* has an entry for holds a handler or null; any other slot holds exactly
\* what the user supplied for it, and is absent when the user supplied
\* nothing.
C3_DefaultSlotsFilled ==
    result.op = "constructor" =>
        /\ \A s \in DefaultSlots : IsHandlerOrNull(Slot(actionMapping, s))
        /\ \A s \in Slots \ DefaultSlots :
              Slot(actionMapping, s) = Slot(UserActionMapping, s)

\* C3 witness: the constructor ran on an empty configuration; dblClick is
\* null and dragStart is absent.
C3_Witness ==
    /\ result.op = "constructor"
    /\ options = EmptyObj
    /\ Slot(actionMapping, <<"mouse", "dblClick">>) = Null
    /\ Slot(actionMapping, <<"mouse", "dragStart">>) = Undefined

\* what the pad for the drop slots is
DropSlotPad(node) == IF node.index = 0 THEN 2 ELSE 1

\* C2 as stated: nodeHeight is 0 for the virtual sentinel, and otherwise the
\* configured height (the constant, or the function applied to the node)
\* plus 2 at index 0 and plus 1 at any other index.
C2_NodeHeight ==
    result.op = "nodeHeight" =>
        LET configured == Get(options, "nodeHeight")
            node == result.node
        IN  IF Truthy(node.virtual) THEN result.value = Num(0)
            ELSE /\ configured.kind = "number" =>
                        result.value = Num(configured.n + DropSlotPad(node))
                 /\ configured.kind = "function" =>
                        result.value =
                            Num(ApplyNodeHeightFn(configured.fn, node).n + DropSlotPad(node))

\* the documented default of a scalar option
DocumentedDefault(g) ==
    CASE g = "childrenField"   -> Str("children")
      [] g = "displayField"    -> Str("name")
      [] g = "idField"         -> Str("id")
      [] g = "isExpandedField" -> Str("isExpanded")
      [] g = "isHiddenField"   -> Str("isHidden")
      [] g = "levelPadding"    -> Num(0)
      [] g = "dropSlotHeight"  -> Num(2)

\* C4 as stated: a resolved scalar option is the user's value when the user
\* set it, and the documented default only when it is unset.
C4_ScalarOptions ==
    result.op \in GetterNames =>
        LET user == Get(options, result.op)
        IN  result.value = (IF user # Undefined THEN user ELSE DocumentedDefault(result.op))

\* C5 as stated: allowDrag and allowDrop return a boolean: false and true
\* when the option is not supplied, the option when it is a boolean, the
\* function's result when it is a function.
C5_DragDropPredicates ==
    /\ result.op = "allowDrag" =>
          LET o == Get(options, "allowDrag")
          IN  /\ result.value.kind = "boolean"
              /\ o = Undefined => result.value = Bool(FALSE)
              /\ o.kind = "boolean" => result.value = o
              /\ o.kind = "function" =>
                    result.value = ApplyAllowDragFn(o.fn, result.node)
    /\ result.op = "allowDrop" =>
          LET o == Get(options, "allowDrop")
          IN  /\ result.value.kind = "boolean"
              /\ o = Undefined => result.value = Bool(TRUE)
              /\ o.kind = "boolean" => result.value = o
              /\ o.kind = "function" =>
                    result.value = ApplyAllowDropFn(o.fn, result.element, result.to)

----------------------------------------------------------------------------
(* The tree under drops, lazy loads, new data and filters.                 *)

\* the configurations that set at most the allowDrop option
DropOptions == { Obj([k \in {"allowDrop"} |-> v]) : v \in OptionValues("allowDrop") }

\* a TreeModel right after setData built the tree t, under the options opts
InitTree(opts, t) ==
    /\ options = opts
    /\ actionMapping = ResolveActionMapping(opts)
    /\ result = NoCall
    /\ TreeIs(t)
    /\ isActive = NoFlags
    /\ isHidden = NoFlags
    /\ hist = <<>>

\* the allowDrop option, read off the configuration, refuses the drop
DropRefused(node, to) ==
    LET o == Get(options, "allowDrop")
    IN  \/ o = Bool(FALSE)
        \/ /\ o.kind = "function"
           /\ ~Truthy(ApplyAllowDropFn(o.fn, NodeView(node),
                                       [parent |-> NodeView(to.parent), index |-> to.index]))

\* how a move of node to the target ends
MoveOutcome(node, to) ==
    IF to.parent = node \/ isDescendantOf(to.parent, node) THEN "cyclic"
    ELSE IF DropRefused(node, to) THEN "refused"
    ELSE "moved"

\* a drop gesture, dispatched through actionMapping.mouse.drop
DropAt(from, to) ==
    /\ Slot(actionMapping, <<"mouse", "drop">>) = Fn("MOVE_NODE")
    /\ MOVE_NODE(to.parent, from, to)
    /\ hist' = Push1([op |-> "moveNode", node |-> from, outcome |-> MoveOutcome(from, to)])
    /\ UNCHANGED <<optVars, flagVars>>

Drop == \E from \in AliveNodes, to \in DropTargets : DropAt(from, to)

LoadChildren ==
    \E n \in AliveNodes :
        /\ loadNodeChildren(n)
        /\ hist' = Push1([op |-> "loadNodeChildren", node |-> n])
        /\ UNCHANGED <<optVars, flagVars>>

LoadComplete ==
    \E n \in AliveNodes, kids \in SUBSET FreeNodes :
        /\ loadComplete(n, kids)
        /\ hist' = Push1([op |-> "loadComplete", node |-> n])
        /\ UNCHANGED <<optVars, flagVars>>

SetData ==
    \E t \in DataTrees :
        /\ setData(t)
        /\ isExpanded' = NoFlags /\ isActive' = NoFlags /\ isHidden' = NoFlags
        /\ hist' = Push1([op |-> "setData"])
        /\ UNCHANGED optVars

FilterNodes ==
    \E filter \in SUBSET Nodes, autoShow \in BOOLEAN :
        /\ filterNodes(filter, autoShow)
        /\ hist' = Push1([op |-> "filterNodes", filter |-> filter, autoShow |-> autoShow])
        /\ UNCHANGED <<optVars, treeVars, isActive>>

\* --- drops under every allowDrop configuration ---

InitDrop ==
    /\ \E opts \in DropOptions, t \in DataTrees : InitTree(opts, t)
    /\ isExpanded = NoFlags

NextDrop == Drop \/ LoadChildren \/ LoadComplete

SpecDrop == InitDrop /\ [][NextDrop]_vars

\* --- the structure under moves, loads, new data and filters ---

InitMove ==
    /\ \E t \in DataTrees : InitTree(EmptyObj, t)
    /\ isExpanded = NoFlags

NextMove == Drop \/ LoadChildren \/ LoadComplete \/ SetData \/ FilterNodes

SpecMove == InitMove /\ [][NextMove]_vars

----------------------------------------------------------------------------
(* Selection, filtering and expansion.                                     *)

\* the expansion flags the data can carry: any, on the nodes of the forest
DataFlags(t) == {f \in [Nodes -> BOOLEAN] : \A n \in Nodes : f[n] => t.loadState[n] # "Absent"}

ActiveNodes == {n \in Nodes : isActive[n]}

\* a node or the null node
NodeOrNull == AliveNodes \cup {0}

\* --- selection ---

InitSelect ==
    /\ \E t \in DataTrees : InitTree(EmptyObj, t)
    /\ isExpanded = NoFlags

\* a click, or the space or enter key, dispatched through the action mapping
Activate ==
    \E slot \in {<<"mouse", "click">>, <<"keys", "SPACE">>, <<"keys", "ENTER">>},
       node \in NodeOrNull :
        /\ Slot(actionMapping, slot) = Fn("TOGGLE_SELECTED")
        /\ TOGGLE_SELECTED(node)
        /\ hist' = Push1([op |-> "toggleActivated", node |-> node, multi |-> FALSE,
                          before |-> ActiveNodes])
        /\ UNCHANGED <<optVars, treeVars, isExpanded, isHidden>>

ActivateMulti ==
    \E node \in NodeOrNull :
        /\ TOGGLE_SELECTED_MULTI(node)
        /\ hist' = Push1([op |-> "toggleActivated", node |-> node, multi |-> TRUE,
                          before |-> ActiveNodes])
        /\ UNCHANGED <<optVars, treeVars, isExpanded, isHidden>>

Select ==
    \E node \in AliveNodes :
        /\ SELECT(node)
        /\ hist' = Push1([op |-> "setActive", node |-> node, value |-> TRUE])
        /\ UNCHANGED <<optVars, treeVars, isExpanded, isHidden>>

Deselect ==
    \E node \in AliveNodes :
        /\ DESELECT(node)
        /\ hist' = Push1([op |-> "setActive", node |-> node, value |-> FALSE])
        /\ UNCHANGED <<optVars, treeVars, isExpanded, isHidden>>

NextSelect == Activate \/ ActivateMulti \/ Select \/ Deselect

SpecSelect == InitSelect /\ [][NextSelect]_vars

\* --- filtering ---

InitFilter ==
    \E t \in DataTrees :
        /\ InitTree(EmptyObj, t)
        /\ isExpanded \in DataFlags(t)

ClearFilter ==
    /\ clearFilter
    /\ hist' = Push1([op |-> "clearFilter"])
    /\ UNCHANGED <<optVars, treeVars, isExpanded, isActive>>

Collapse ==
    \E node \in AliveNodes :
        /\ COLLAPSE(node)
        /\ hist' = Push1([op |-> "collapse", node |-> node])
        /\ UNCHANGED <<optVars, children, parent, index, level, path, isActive, isHidden>>

NextFilter == FilterNodes \/ ClearFilter \/ Collapse

SpecFilter == InitFilter /\ [][NextFilter]_vars

\* --- expansion ---

InitExpand ==
    \E t \in DataTrees :
        /\ InitTree(EmptyObj, t)
        /\ isExpanded \in DataFlags(t)

\* one of the expansion handlers runs on node; the flags before it are kept
ExpansionStep(op, node) ==
    /\ hist' = Push2([op |-> op, node |-> node, before |-> isExpanded])
    /\ UNCHANGED <<optVars, children, parent, index, level, path, isActive, isHidden>>

DoExpand   == \E node \in AliveNodes : EXPAND(node) /\ ExpansionStep("expand", node)
DoCollapse == \E node \in AliveNodes : COLLAPSE(node) /\ ExpansionStep("collapse", node)

\* a click on the expander, dispatched through the action mapping
ExpanderClick ==
    \E node \in AliveNodes :
        /\ Slot(actionMapping, <<"mouse", "expanderClick">>) = Fn("TOGGLE_EXPANDED")
        /\ TOGGLE_EXPANDED(node)
        /\ ExpansionStep("toggleExpanded", node)

NextExpand == DoExpand \/ DoCollapse \/ ExpanderClick

SpecExpand == InitExpand /\ [][NextExpand]_vars

----------------------------------------------------------------------------
(* Claims about moves and the structure of the tree.                       *)

\* C6: a drop of a node onto itself or into its own subtree, or a drop the
\* allowDrop option refuses, leaves every node's parent, children, index,
\* level and path as they were.
C6_InvalidMoveIsNoOp ==
    [][(hist' # <<>> /\ hist'[1].op = "moveNode" /\ hist'[1].outcome # "moved")
          => UNCHANGED treeVars]_vars

\* C6 witness: a node was dropped into its own subtree under a
\* configuration that allows drops, and a drop was refused by allowDrop.
C6_Witness ==
    /\ hist # <<>>
    /\ hist[1].op = "moveNode"
    /\ \/ hist[1].outcome = "cyclic" /\ Get(options, "allowDrop") = Bool(TRUE)
          /\ \E n \in AliveNodes : isDescendantOf(n, hist[1].node)
       \/ hist[1].outcome = "refused" /\ Get(options, "allowDrop") = Bool(FALSE)
          /\ Cardinality(AliveNodes) = MaxNodes

\* C7: children[i].index = i and children[i].parent = the owner, for the
\* roots and for every node; no node is in two children sequences or twice
\* in one, and every node of the forest is in its parent's sequence.
C7_StructuralInvariant ==
    /\ \A n \in 0..MaxNodes : \A i \in 1..Len(children[n]) :
          /\ index[children[n][i]] = i - 1
          /\ parent[children[n][i]] = n
          /\ children[n][i] \in AliveNodes
    /\ \A n, m \in 0..MaxNodes : \A i \in 1..Len(children[n]), j \in 1..Len(children[m]) :
          children[n][i] = children[m][j] => n = m /\ i = j
    /\ \A c \in AliveNodes : c \in Range(children[parent[c]])

\* C7 witness: a node was moved to the front of another node's children,
\* ahead of a sibling that was shifted up.
C7_Witness ==
    /\ hist # <<>>
    /\ hist[1].op = "moveNode"
    /\ hist[1].outcome = "moved"
    /\ parent[hist[1].node] # 0
    /\ index[hist[1].node] = 0
    /\ Len(children[parent[hist[1].node]]) >= 2

----------------------------------------------------------------------------
(* Claims about selection, filtering and expansion.                        *)

\* the last operation was toggleActivated(multi) on a node
LastToggle(multi) ==
    /\ hist # <<>>
    /\ hist[1].op = "toggleActivated"
    /\ hist[1].multi = multi
    /\ hist[1].node # 0

\* toggleActivated(true) flipped only the node it was called on
MultiFlipsOnlyNode ==
    LastToggle(TRUE) =>
        \A n \in Nodes :
            (n \in ActiveNodes) = IF n = hist[1].node THEN n \notin hist[1].before
                                  ELSE n \in hist[1].before

\* C8 as stated: after toggleActivated(false) on A while another node was
\* active, exactly A is active; toggleActivated(true) flips only A.
C8_SingleSelect ==
    /\ (LastToggle(FALSE) /\ hist[1].before \ {hist[1].node} # {}) =>
            ActiveNodes = {hist[1].node}
    /\ MultiFlipsOnlyNode

\* C8 amended: after toggleActivated(false) on an inactive node A while
\* another node was active, exactly A is active; on an active node A it
\* deactivates A and leaves the others as they were; toggleActivated(true)
\* flips only A.
C8_SingleSelectOfInactive ==
    /\ (LastToggle(FALSE) /\ hist[1].before \ {hist[1].node} # {}
        /\ hist[1].node \notin hist[1].before) =>
            ActiveNodes = {hist[1].node}
    /\ (LastToggle(FALSE) /\ hist[1].node \in hist[1].before) =>
            ActiveNodes = hist[1].before \ {hist[1].node}
    /\ MultiFlipsOnlyNode

\* C8 witness: two nodes were active, a third, inactive one was toggled
\* without multi and is now the only active node.
C8_Witness ==
    /\ LastToggle(FALSE)
    /\ Cardinality(hist[1].before) = 2
    /\ hist[1].node \notin hist[1].before
    /\ ActiveNodes = {hist[1].node}

\* the last operation was filterNodes(filter, true)
LastFilterAutoShow ==
    /\ hist # <<>>
    /\ hist[1].op = "filterNodes"
    /\ hist[1].autoShow

\* C9: after filterNodes(f, true) every visible node has every strict
\* ancestor visible and expanded, and every node matching f is visible.
C9_FilterMonotonic ==
    LastFilterAutoShow =>
        /\ \A n \in AliveNodes : ~isHidden[n] =>
              \A a \in Ancestors(n) : ~isHidden[a] /\ isExpanded[a]
        /\ \A n \in AliveNodes \cap hist[1].filter : ~isHidden[n]

\* C9 witness: the filter matched only a node at the deepest level, none
\* of its ancestors; the node and its ancestors are visible and expanded.
C9_Witness ==
    /\ LastFilterAutoShow
    /\ \E n \in AliveNodes :
          /\ hist[1].filter = {n}
          /\ level[n] = MaxNodes
          /\ ~isHidden[n]
          /\ \A a \in Ancestors(n) : ~isHidden[a] /\ isExpanded[a]

\* the last two operations were first and then second, on the same node
LastTwo(first, second) ==
    /\ Len(hist) = 2
    /\ hist[2].op = first
    /\ hist[1].op = second
    /\ hist[1].node = hist[2].node

\* expand() and collapse() are each idempotent, and a no-op on a node
\* without children
ExpandCollapseIdempotent ==
    /\ (LastTwo("expand", "expand") \/ LastTwo("collapse", "collapse")) =>
            isExpanded = hist[1].before
    /\ (hist # <<>> /\ hist[1].op \in {"expand", "collapse"} /\ ~hasChildren(hist[1].node)) =>
            isExpanded = hist[1].before

\* C10 as stated: expand() then collapse() restores isExpanded to the value
\* before the pair; each alone is idempotent, and a no-op without children.
C10_ExpandCollapseRestores ==
    /\ LastTwo("expand", "collapse") => isExpanded = hist[2].before
    /\ ExpandCollapseIdempotent

\* C10 amended: expand() then collapse() leaves a node that has children
\* collapsed, which is the value before the pair only if the node was
\* collapsed; a node without children is left as it was; each alone is
\* idempotent, and a no-op without children.
C10_ExpandCollapseCollapses ==
    /\ LastTwo("expand", "collapse") =>
            isExpanded = [hist[2].before EXCEPT ![hist[1].node] =
                             IF hasChildren(hist[1].node) THEN FALSE ELSE @]
    /\ ExpandCollapseIdempotent

\* C10 witness: a node with children that was expanded went through
\* expand() then collapse() and is now collapsed.
C10_Witness ==
    /\ LastTwo("expand", "collapse")
    /\ hasChildren(hist[1].node)
    /\ hist[2].before[hist[1].node]
    /\ ~isExpanded[hist[1].node]

====
